---- MODULE Spec2Model ----
(***************************************************************************)
(* Model of the boxnotes2md renderer (src/main.go).                        *)
(*                                                                         *)
(* A Go string is modelled as a sequence of runes, each rune a one         *)
(* character TLA+ string (the zero width space U+200B is the token ZWSP,   *)
(* the backquote U+0060 the token BQ).                                     *)
(* A Node / Mark is a record with the fields of the Go struct.  An attrs   *)
(* map is a record over AttrKeys whose values are tagged with the dynamic  *)
(* Go type that encoding/json produced; a key that is absent from the map  *)
(* (or a nil map) has the value Missing.                                   *)
(***************************************************************************)
EXTENDS Integers, Sequences, FiniteSets, TLC

VARIABLES pc, goarch, text, marks, nodes, ctx, out

vars == <<pc, goarch, text, marks, nodes, ctx, out>>

(***************************************************************************)
(* Bounds of the model.                                                    *)
(***************************************************************************)
MaxTextLen == 3
MaxMarkedTextLen == 2
MaxMarks == 2
MaxFenceLen == 4
MaxBlocks == 3
MaxRows == 2
MaxCells == 2
MaxLevel == 8
MaxItems == 2
MaxDepth == 2

(***************************************************************************)
(* Runes.                                                                  *)
(***************************************************************************)
ZWSP == "ZWSP"
\* The backquote rune U+0060, which a TLA+ string cannot hold.
BQ == "BQ"
NL == "\n"
BS == "\\"

(***************************************************************************)
(* Package strings.                                                        *)
(***************************************************************************)
RECURSIVE Repeat(_, _)
Repeat(s, n) == IF n <= 0 THEN <<>> ELSE s \o Repeat(s, n - 1)

HasPrefix(s, p) == Len(s) >= Len(p) /\ SubSeq(s, 1, Len(p)) = p

HasSuffix(s, p) == Len(s) >= Len(p) /\ SubSeq(s, Len(s) - Len(p) + 1, Len(s)) = p

Contains(s, sub) == \E i \in 1..(Len(s) - Len(sub) + 1) : SubSeq(s, i, i + Len(sub) - 1) = sub

RECURSIVE Join(_, _)
Join(elems, sep) ==
    IF Len(elems) = 0 THEN <<>>
    ELSE IF Len(elems) = 1 THEN elems[1]
    ELSE elems[1] \o sep \o Join(Tail(elems), sep)

\* strings.Split(s, sep) for a one-rune separator: always at least one element.
RECURSIVE Split(_, _)
Split(s, sep) ==
    IF \A i \in 1..Len(s) : s[i] # sep[1] THEN <<s>>
    ELSE LET i == CHOOSE k \in 1..Len(s) : s[k] = sep[1] /\ \A j \in 1..(k - 1) : s[j] # sep[1]
         IN  <<SubSeq(s, 1, i - 1)>> \o Split(SubSeq(s, i + 1, Len(s)), sep)

\* strings.ReplaceAll(s, old, new) for a non-empty old: leftmost, non-overlapping.
RECURSIVE ReplaceAll(_, _, _)
ReplaceAll(s, old, new) ==
    IF Len(s) < Len(old) THEN s
    ELSE IF SubSeq(s, 1, Len(old)) = old
         THEN new \o ReplaceAll(SubSeq(s, Len(old) + 1, Len(s)), old, new)
         ELSE <<s[1]>> \o ReplaceAll(Tail(s), old, new)

\* A rune outside ASCII, and the vertical tab, is written as the string
\* "U+" followed by its code point in four hexadecimal digits.
\* unicode.IsSpace: the Latin-1 spaces \t \n \v \f \r, space, U+0085 and
\* U+00A0, and the runes of the categories Zs, Zl and Zp.
SpaceRunes ==
    {"\t", "\n", "U+000B", "\f", "\r", " ",
     "U+0085", "U+00A0", "U+1680", "U+2000", "U+2001", "U+2002", "U+2003",
     "U+2004", "U+2005", "U+2006", "U+2007", "U+2008", "U+2009", "U+200A",
     "U+2028", "U+2029", "U+202F", "U+205F", "U+3000"}

IsSpace(r) == r \in SpaceRunes

RECURSIVE TrimLeftSpace(_)
TrimLeftSpace(s) == IF Len(s) > 0 /\ IsSpace(s[1]) THEN TrimLeftSpace(Tail(s)) ELSE s

RECURSIVE TrimRightSpace(_)
TrimRightSpace(s) ==
    IF Len(s) > 0 /\ IsSpace(s[Len(s)]) THEN TrimRightSpace(SubSeq(s, 1, Len(s) - 1)) ELSE s

TrimSpace(s) == TrimRightSpace(TrimLeftSpace(s))

\* strings.TrimRight(s, cutset): drops every trailing rune that is in cutset.
RECURSIVE TrimRight(_, _)
TrimRight(s, cutset) ==
    IF Len(s) > 0 /\ (\E i \in 1..Len(cutset) : cutset[i] = s[Len(s)])
    THEN TrimRight(SubSeq(s, 1, Len(s) - 1), cutset)
    ELSE s

(***************************************************************************)
(* Attribute values, as encoding/json decodes them into interface{}.       *)
(* A float64 is mant * 10^exp.                                             *)
(***************************************************************************)
AttrKeys == {"level", "checked", "href"}

Missing == [kind |-> "missing"]
Null == [kind |-> "nil"]
BoolVal(b) == [kind |-> "bool", b |-> b]
StringVal(s) == [kind |-> "string", s |-> s]
Float64Val(m, e) == [kind |-> "float64", mant |-> m, exp |-> e]

NoAttrs == [k \in AttrKeys |-> Missing]
Attrs(key, v) == [k \in AttrKeys |-> IF k = key THEN v ELSE Missing]

Mark(t, a) == [type |-> t, attrs |-> a]
Node(t, a, c) == [type |-> t, attrs |-> a, content |-> c, text |-> <<>>, marks |-> <<>>]
TextNode(s, m) == [type |-> "text", attrs |-> NoAttrs, content |-> <<>>, text |-> s, marks |-> m]
RenderContext(i) == [Indent |-> i]

(***************************************************************************)
(* Attribute accessors.                                                    *)
(***************************************************************************)
GoArchs == {"amd64", "arm64"}
MaxInt == (2^30 - 1) + 2^30
MinInt == 0 - MaxInt - 1

Abs(n) == IF n < 0 THEN 0 - n ELSE n
Sign(n) == IF n < 0 THEN 0 - 1 ELSE 1

\* The decimal digits of a natural number, most significant first.
RECURSIVE DigitsOf(_)
DigitsOf(n) == IF n < 10 THEN <<n>> ELSE DigitsOf(n \div 10) \o <<n % 10>>

\* The digits of |mant * 10^exp| for exp >= 0.
MagnitudeDigits(v) == DigitsOf(Abs(v.mant)) \o [i \in 1..v.exp |-> 0]

\* 2^63 = 9223372036854775808, one more than the largest int.
Two63Digits == <<9, 2, 2, 3, 3, 7, 2, 0, 3, 6, 8, 5, 4, 7, 7, 5, 8, 0, 8>>

\* a < b for digit sequences of the same length.
RECURSIVE DigitsLess(_, _)
DigitsLess(a, b) ==
    IF Len(a) = 0 THEN FALSE
    ELSE IF a[1] # b[1] THEN a[1] < b[1]
    ELSE DigitsLess(Tail(a), Tail(b))

\* Whether the truncation of v is a value of the 64-bit int: -2^63 <= v < 2^63.
\* (A mantissa of the model has at most ten digits, so no such decimal is
\* close enough to 2^63 for the rounding to float64 to cross it.)
FitsInt(v) ==
    LET d == MagnitudeDigits(v)
    IN  \/ Len(d) < Len(Two63Digits)
        \/ /\ Len(d) = Len(Two63Digits)
           /\ (DigitsLess(d, Two63Digits) \/ (v.mant < 0 /\ d = Two63Digits))

\* int(v) for a float64 v.  The fraction is discarded (truncation towards
\* zero).  A value outside the range of int is implementation-dependent
\* (Go spec, Conversions): amd64 yields the most negative int, arm64
\* saturates.  int has 64 bits on both builds.  MaxInt and MinInt are the
\* largest and the smallest integer of the model: MaxInt stands for every
\* int >= MaxInt and MinInt for every int <= MinInt.
intFromFloat64(v) ==
    IF v.mant = 0 THEN 0
    ELSE IF v.exp < 0 THEN
        IF 0 - v.exp > 9 THEN 0
        ELSE Sign(v.mant) * (Abs(v.mant) \div (10 ^ (0 - v.exp)))
    ELSE IF v.exp <= 9 /\ Abs(v.mant) <= MaxInt \div (10 ^ v.exp) THEN v.mant * (10 ^ v.exp)
    ELSE IF FitsInt(v) THEN (IF v.mant > 0 THEN MaxInt ELSE MinInt)
    ELSE IF goarch = "amd64" THEN MinInt
    ELSE IF v.mant > 0 THEN MaxInt ELSE MinInt

getIntAttr(attrs, key) ==
    LET value == attrs[key]
    IN  IF value.kind = "missing" THEN 0
        ELSE IF value.kind = "float64" THEN intFromFloat64(value)
        ELSE 0

getBoolAttrLoose(attrs, key) ==
    LET value == attrs[key]
    IN  \/ (value.kind = "bool" /\ value.b)
        \/ (value.kind = "string" /\ value.s = <<"t", "r", "u", "e">>)
        \/ (value.kind = "float64" /\ value.mant # 0)

getBoolAttr(attrs, key) ==
    LET value == attrs[key]
    IN  IF value.kind = "missing" THEN FALSE
        ELSE value.kind = "bool" /\ value.b

\* The pair (string, ok) of the Go function.
getStringAttr(attrs, key) ==
    LET value == attrs[key]
    IN  IF value.kind = "missing" THEN <<<<>>, FALSE>>
        ELSE IF value.kind = "string" THEN <<value.s, TRUE>>
        ELSE <<<<>>, FALSE>>

clampInt(value, minValue, maxValue) ==
    IF value < minValue THEN minValue
    ELSE IF value > maxValue THEN maxValue
    ELSE value

(***************************************************************************)
(* Escaping and zero width space padding.                                  *)
(***************************************************************************)
\* strings.NewReplacer with one-rune patterns: one left-to-right pass.
RECURSIVE escapeLinkText(_)
escapeLinkText(s) ==
    IF Len(s) = 0 THEN <<>>
    ELSE (IF s[1] \in {BS, "[", "]", "(", ")"} THEN <<BS, s[1]>> ELSE <<s[1]>>)
         \o escapeLinkText(Tail(s))

escapeForMarkdownNoBackslash(s, emDelimiter, hasStrong, hasStrike) ==
    LET t2 == IF emDelimiter = <<"*">> \/ hasStrong THEN ReplaceAll(s, <<"*">>, <<BS, "*">>) ELSE s
        t3 == IF emDelimiter = <<"_">> THEN ReplaceAll(t2, <<"_">>, <<BS, "_">>) ELSE t2
        t4 == IF hasStrike THEN ReplaceAll(t3, <<"~">>, <<BS, "~">>) ELSE t3
    IN  t4

escapeForMarkdown(s, emDelimiter, hasStrong, hasStrike) ==
    LET t1 == ReplaceAll(s, <<BS>>, <<BS, BS>>)
        t2 == IF emDelimiter = <<"*">> \/ hasStrong THEN ReplaceAll(t1, <<"*">>, <<BS, "*">>) ELSE t1
        t3 == IF emDelimiter = <<"_">> THEN ReplaceAll(t2, <<"_">>, <<BS, "_">>) ELSE t2
        t4 == IF hasStrike THEN ReplaceAll(t3, <<"~">>, <<BS, "~">>) ELSE t3
    IN  t4

\* The case labels of the switch, line by line.
YakumonoRunes ==
    {"U+3001", "U+3002", "U+FF0C", "U+FF0E", "U+FF61", "U+FF64", "U+FF65", "U+30FB",
     "U+FF1A", "U+FF1B", "U+FF01", "U+FF1F", "!", "?",
     "U+300C", "U+300D", "U+300E", "U+300F", "U+FF08", "U+FF09", "U+FF3B", "U+FF3D", "U+3010", "U+3011",
     "U+3008", "U+3009", "U+300A", "U+300B", "U+201C", "U+201D", "U+2018", "U+2019",
     "U+2026", "U+2025", "U+301C", "U+FF5E", "U+30FC", "U+2014", "U+2015", "U+2010", "U+2011", "U+FF70"}

isYakumono(r) == r \in YakumonoRunes

\* (rune, ok)
firstRune(s) == IF Len(s) > 0 THEN <<s[1], TRUE>> ELSE <<"", FALSE>>

lastRune(s) == IF Len(s) > 0 THEN <<s[Len(s)], TRUE>> ELSE <<"", FALSE>>

padWithZeroWidthSpace(s) ==
    IF s = <<>> THEN s
    ELSE LET zwsp == <<ZWSP>>
             r1 == firstRune(s)
             p1 == IF ~HasPrefix(s, zwsp) /\ r1[2] /\ ~IsSpace(r1[1]) /\ isYakumono(r1[1])
                   THEN zwsp \o s ELSE s
             r2 == lastRune(p1)
             p2 == IF ~HasSuffix(p1, zwsp) /\ r2[2] /\ ~IsSpace(r2[1]) /\ isYakumono(r2[1])
                   THEN p1 \o zwsp ELSE p1
         IN  p2

(***************************************************************************)
(* Mark renderer.                                                          *)
(***************************************************************************)
IgnoredMarkTypes == {"author_id", "font_size", "font_color", "highlight"}

filterMarksKeepHighlight(ms) ==
    SelectSeq(ms, LAMBDA m : m.type \notin (IgnoredMarkTypes \ {"highlight"}))

filterMarks(ms) == SelectSeq(ms, LAMBDA m : m.type \notin IgnoredMarkTypes)

hasMarkType(ms, markType) == \E i \in 1..Len(ms) : ms[i].type = markType

markOrderSwapped(markType) ==
    CASE markType = "link" -> 0
      [] markType = "strong" -> 2
      [] markType = "em" -> 1
      [] markType = "underline" -> 3
      [] markType = "strikethrough" -> 4
      [] markType = "code" -> 5
      [] OTHER -> 100

markOrder(markType) ==
    CASE markType = "link" -> 0
      [] markType = "strong" -> 1
      [] markType = "em" -> 2
      [] markType = "underline" -> 3
      [] markType = "strikethrough" -> 4
      [] markType = "code" -> 5
      [] OTHER -> 100

\* sort.SliceStable(filtered, less) with less(i, j) = markOrder(i) < markOrder(j):
\* stable insertion of each element after the elements that are not greater.
RECURSIVE insertStable(_, _)
insertStable(sorted, m) ==
    IF Len(sorted) = 0 THEN <<m>>
    ELSE IF markOrder(m.type) < markOrder(sorted[1].type) THEN <<m>> \o sorted
    ELSE <<sorted[1]>> \o insertStable(Tail(sorted), m)

RECURSIVE sortSliceStable(_)
sortSliceStable(ms) ==
    IF Len(ms) = 0 THEN <<>>
    ELSE insertStable(sortSliceStable(SubSeq(ms, 1, Len(ms) - 1)), ms[Len(ms)])

\* The scan keeps the current run length and the maximum seen so far.
RECURSIVE maxBackticksScan(_, _, _)
maxBackticksScan(s, current, max) ==
    IF Len(s) = 0 THEN max
    ELSE IF s[1] = BQ
         THEN maxBackticksScan(Tail(s), current + 1, IF current + 1 > max THEN current + 1 ELSE max)
         ELSE maxBackticksScan(Tail(s), 0, max)

maxConsecutiveBackticks(s) == maxBackticksScan(s, 0, 0)

wrapInlineCode(s) ==
    IF ~Contains(s, <<BQ>>) THEN <<BQ>> \o s \o <<BQ>>
    ELSE LET max == maxConsecutiveBackticks(s)
             fence == Repeat(<<BQ>>, max + 1)
         IN  fence \o s \o fence

\* One iteration of the wrapping loop, for the mark m around the text s.
wrapMark(s, m, emDelimiter) ==
    CASE m.type = "link" ->
            LET href == getStringAttr(m.attrs, "href")
            IN  IF ~href[2] \/ href[1] = <<>> THEN s
                ELSE <<"[">> \o escapeLinkText(s) \o <<"]", "(">> \o href[1] \o <<")">>
      [] m.type = "strong" -> <<"*", "*">> \o s \o <<"*", "*">>
      [] m.type = "em" -> emDelimiter \o s \o emDelimiter
      [] m.type = "underline" -> <<"<", "u", ">">> \o s \o <<"<", "/", "u", ">">>
      [] m.type = "strikethrough" -> <<"~", "~">> \o s \o <<"~", "~">>
      [] m.type = "code" -> wrapInlineCode(s)
      [] OTHER -> s

\* for i := len(filtered) - 1; i >= 0; i--
RECURSIVE wrapLoop(_, _, _)
wrapLoop(s, filtered, emDelimiter) ==
    IF Len(filtered) = 0 THEN s
    ELSE wrapLoop(wrapMark(s, filtered[Len(filtered)], emDelimiter),
                  SubSeq(filtered, 1, Len(filtered) - 1), emDelimiter)

applyMarks(s, ms) ==
    LET filtered == filterMarks(ms)
    IN  IF Len(filtered) = 0 THEN s
        ELSE LET hasStrong == hasMarkType(filtered, "strong")
                 hasEm == hasMarkType(filtered, "em")
                 hasStrike == hasMarkType(filtered, "strikethrough")
                 hasCode == hasMarkType(filtered, "code")
                 hasLink == hasMarkType(filtered, "link")
                 emDelimiter == IF hasStrong /\ hasEm THEN <<"_">> ELSE <<"*">>
                 escaped == IF ~hasCode
                            THEN escapeForMarkdown(s, emDelimiter, hasStrong, hasStrike)
                            ELSE s
                 padded == IF (hasStrong \/ hasEm \/ hasStrike \/ hasCode) /\ ~hasLink
                           THEN padWithZeroWidthSpace(escaped)
                           ELSE escaped
             IN  wrapLoop(padded, sortSliceStable(filtered), emDelimiter)

(***************************************************************************)
(* Line helpers.                                                           *)
(***************************************************************************)
indentMultiline(s, indent) ==
    LET lines == Split(s, <<NL>>)
    IN  Join([i \in 1..Len(lines) |->
                 IF i = 1 THEN lines[i] ELSE Repeat(<<" ">>, indent) \o lines[i]], <<NL>>)

indentAllLines(s, indent) ==
    IF s = <<>> THEN <<>>
    ELSE LET lines == Split(s, <<NL>>)
             prefix == Repeat(<<" ">>, indent)
         IN  Join([i \in 1..Len(lines) |->
                      IF lines[i] = <<>> THEN prefix ELSE prefix \o lines[i]], <<NL>>)

prefixLinesNoTrim(s, prefix) ==
    LET lines == Split(s, <<NL>>)
    IN  Join([i \in 1..Len(lines) |-> prefix \o lines[i]], <<NL>>)

prefixLines(s, prefix) ==
    LET lines == Split(s, <<NL>>)
    IN  Join([i \in 1..Len(lines) |->
                 IF lines[i] = <<>> THEN TrimRight(prefix, <<" ">>) ELSE prefix \o lines[i]],
             <<NL>>)

escapeTableCell(s) == ReplaceAll(s, <<"|">>, <<BS, "|">>)

normalizeRowNoPadding(row, colCount) ==
    IF Len(row) > colCount THEN SubSeq(row, 1, colCount) ELSE row

normalizeRow(row, colCount) ==
    IF Len(row) = colCount THEN row
    ELSE IF Len(row) > colCount THEN SubSeq(row, 1, colCount)
    ELSE [i \in 1..colCount |-> IF i <= Len(row) THEN row[i] ELSE <<>>]

formatTableRow(row) ==
    <<"|", " ">> \o Join([i \in 1..Len(row) |-> TrimSpace(row[i])], <<" ", "|", " ">>)
                 \o <<" ", "|">>

formatTableSeparator(colCount) ==
    IF colCount <= 0 THEN <<>>
    ELSE <<"|", " ">> \o Join([i \in 1..colCount |-> <<"-", "-", "-">>], <<" ", "|", " ">>)
                      \o <<" ", "|">>

(***************************************************************************)
(* Inline, block, list and table renderers.  renderBlock returns the pair  *)
(* (text, keep).                                                           *)
(***************************************************************************)
RECURSIVE renderInline(_)
RECURSIVE renderBlocks(_, _)
RECURSIVE renderBlock(_, _)
RECURSIVE keptBlocks(_, _)
RECURSIVE renderList(_, _, _)
RECURSIVE renderCheckList(_, _)
RECURSIVE renderListItem(_, _, _)
RECURSIVE renderCellContent(_, _)

\* One iteration of the loop of renderInline: what a node writes.
inlinePiece(node) ==
    CASE node.type = "text" -> applyMarks(node.text, node.marks)
      [] node.type = "hard_break" -> <<BS, NL>>
      [] OTHER -> IF Len(node.content) > 0 THEN renderInline(node.content) ELSE <<>>

renderInline(ns) ==
    IF Len(ns) = 0 THEN <<>> ELSE inlinePiece(ns[1]) \o renderInline(Tail(ns))

\* if !keep { continue }; blocks = append(blocks, block)
appendIfKept(r) == IF r[2] THEN <<r[1]>> ELSE <<>>

\* The loop of renderBlocks: the texts of the blocks that are kept, in order.
keptBlocks(ns, c) ==
    IF Len(ns) = 0 THEN <<>>
    ELSE appendIfKept(renderBlock(ns[1], c)) \o keptBlocks(Tail(ns), c)

renderBlocks(ns, c) == Join(keptBlocks(ns, c), <<NL, NL>>)

renderNode(node, c) == renderBlocks(node.content, c)

\* case "heading"
renderHeading(node, c) ==
    <<Repeat(<<"#">>, clampInt(getIntAttr(node.attrs, "level"), 1, 6)) \o <<" ">>
          \o renderInline(node.content), TRUE>>

renderParagraphDropEmpty(node, c) ==
    IF Len(node.content) = 0 THEN <<<<>>, FALSE>>
    ELSE <<renderInline(node.content), TRUE>>

\* case "paragraph"
renderParagraph(node, c) ==
    IF Len(node.content) = 0 THEN <<<<>>, TRUE>>
    ELSE <<renderInline(node.content), TRUE>>

\* The prefix of a check_list_item, as renderBlock and renderCheckList compute it.
checkPrefix(item) ==
    IF getBoolAttr(item.attrs, "checked")
    THEN <<"-", " ", "[", "x", "]", " ">>
    ELSE <<"-", " ", "[", " ", "]", " ">>

\* case "check_list_item"
renderCheckListItem(node, c) ==
    <<Join(renderListItem(node, c, checkPrefix(node)), <<NL>>), TRUE>>

\* default: a node of a type the dispatcher does not know
renderDefault(node, c) ==
    IF Len(node.content) = 0 THEN <<<<>>, FALSE>>
    ELSE <<renderBlocks(node.content, c), TRUE>>

quoteOf(content) ==
    IF content = <<>> THEN <<">">> ELSE prefixLines(content, <<">", " ">>)

renderBlockquote(ns, c) == quoteOf(renderBlocks(ns, c))

\* One iteration of the loop of renderCellContent: the part a node appends.
cellPart(node, c) ==
    CASE node.type = "paragraph" ->
            IF Len(node.content) > 0 THEN <<renderInline(node.content)>> ELSE <<>>
      [] node.type = "text" -> <<applyMarks(node.text, node.marks)>>
      [] OTHER ->
            IF Len(node.content) > 0 THEN <<renderCellContent(node.content, c)>> ELSE <<>>

RECURSIVE cellParts(_, _)
cellParts(ns, c) ==
    IF Len(ns) = 0 THEN <<>> ELSE cellPart(ns[1], c) \o cellParts(Tail(ns), c)

renderCellContent(ns, c) == Join(cellParts(ns, c), <<"<", "b", "r", ">">>)

renderTableCell(cell, c) ==
    escapeTableCell(ReplaceAll(renderCellContent(cell.content, c), <<NL>>, <<"<", "b", "r", ">">>))

renderCells(cells, c) == [i \in 1..Len(cells) |-> renderTableCell(cells[i], c)]

renderTableRow(row, c) ==
    renderCells(SelectSeq(row.content, LAMBDA cell : cell.type \in {"table_header", "table_cell"}), c)

MaxOf(S) == IF S = {} THEN 0 ELSE CHOOSE m \in S : \A x \in S : x <= m

\* The part of renderTable after the rows are collected.
tableOfRows(rows, colCount) ==
    IF Len(rows) = 0 THEN <<>>
    ELSE IF colCount = 0 THEN <<>>
    ELSE Join(<<formatTableRow(normalizeRow(rows[1], colCount)), formatTableSeparator(colCount)>>
              \o [i \in 1..(Len(rows) - 1) |->
                     formatTableRow(normalizeRow(rows[i + 1], colCount))],
              <<NL>>)

colCountOf(rows) == MaxOf({Len(rows[i]) : i \in 1..Len(rows)})

renderRows(rowNodes, c) == [i \in 1..Len(rowNodes) |-> renderTableRow(rowNodes[i], c)]

tableOfRendered(rows) == tableOfRows(rows, colCountOf(rows))

renderTable(node, c) ==
    tableOfRendered(renderRows(SelectSeq(node.content, LAMBDA row : row.type = "table_row"), c))

\* if nested != "" { lines = append(lines, strings.Split(nested, "\n")...) }
splitNested(nested) == IF nested # <<>> THEN Split(nested, <<NL>>) ELSE <<>>

\* The nested list cases without the hasItem guard.
nestedLinesUnguarded(item, c, hasItem) ==
    splitNested(
        CASE item.type = "bullet_list" ->
                renderList(item, RenderContext(c.Indent + 2), <<"-", " ">>)
          [] item.type = "ordered_list" ->
                renderList(item, RenderContext(c.Indent + 2), <<"1", ".", " ">>)
          [] item.type = "check_list" ->
                renderCheckList(item, RenderContext(c.Indent + 2)))

\* One iteration of the loop of renderList / renderCheckList on a child that
\* is itself a list: its lines, at indent + 2, if an item came before it.
nestedLines(item, c, hasItem) ==
    IF ~hasItem THEN <<>>
    ELSE splitNested(
             CASE item.type = "bullet_list" ->
                     renderList(item, RenderContext(c.Indent + 2), <<"-", " ">>)
               [] item.type = "ordered_list" ->
                     renderList(item, RenderContext(c.Indent + 2), <<"1", ".", " ">>)
               [] item.type = "check_list" ->
                     renderCheckList(item, RenderContext(c.Indent + 2)))

NestedListTypes == {"bullet_list", "ordered_list", "check_list"}

renderList(node, c, prefix) ==
    LET RECURSIVE loop(_, _)
        loop(items, hasItem) ==
            IF Len(items) = 0 THEN <<>>
            ELSE LET item == items[1]
                 IN  CASE item.type = "list_item" ->
                             renderListItem(item, c, prefix) \o loop(Tail(items), TRUE)
                       [] item.type \in NestedListTypes ->
                             nestedLines(item, c, hasItem) \o loop(Tail(items), hasItem)
                       [] OTHER -> loop(Tail(items), hasItem)
    IN  Join(loop(node.content, FALSE), <<NL>>)

renderCheckList(node, c) ==
    LET RECURSIVE loop(_, _)
        loop(items, hasItem) ==
            IF Len(items) = 0 THEN <<>>
            ELSE LET item == items[1]
                 IN  CASE item.type = "check_list_item" ->
                             renderListItem(item, c, checkPrefix(item)) \o loop(Tail(items), TRUE)
                       [] item.type \in NestedListTypes ->
                             nestedLines(item, c, hasItem) \o loop(Tail(items), hasItem)
                       [] OTHER -> loop(Tail(items), hasItem)
    IN  Join(loop(node.content, FALSE), <<NL>>)

\* One iteration of the loop of renderListItem over the remaining children.
childLines(r, indent) ==
    IF ~r[2] THEN <<>>
    ELSE IF r[1] = <<>> THEN <<Repeat(<<" ">>, indent + 2)>>
    ELSE <<indentAllLines(r[1], indent + 2)>>

RECURSIVE restLines(_, _)
restLines(cs, indent) ==
    IF Len(cs) = 0 THEN <<>>
    ELSE childLines(renderBlock(cs[1], RenderContext(indent + 2)), indent)
         \o restLines(Tail(cs), indent)

firstLine(prefixLine, first) ==
    prefixLine \o indentMultiline(renderInline(first.content), Len(prefixLine))

itemLines(prefixLine, children, indent) ==
    IF Len(children) = 0 THEN <<prefixLine>>
    ELSE IF children[1].type = "paragraph"
         THEN <<firstLine(prefixLine, children[1])>> \o restLines(Tail(children), indent)
         ELSE <<prefixLine>> \o restLines(children, indent)

renderListItem(node, c, prefix) ==
    itemLines(Repeat(<<" ">>, c.Indent) \o prefix, node.content, c.Indent)

renderBlock(node, c) ==
    CASE node.type = "heading" -> renderHeading(node, c)
      [] node.type = "paragraph" -> renderParagraph(node, c)
      [] node.type = "hard_break" -> <<<<BS, NL>>, TRUE>>
      [] node.type = "bullet_list" -> <<renderList(node, c, <<"-", " ">>), TRUE>>
      [] node.type = "ordered_list" -> <<renderList(node, c, <<"1", ".", " ">>), TRUE>>
      [] node.type = "list_item" ->
            <<Join(renderListItem(node, c, <<"-", " ">>), <<NL>>), TRUE>>
      [] node.type = "check_list" -> <<renderCheckList(node, c), TRUE>>
      [] node.type = "check_list_item" -> renderCheckListItem(node, c)
      [] node.type = "horizontal_rule" -> <<<<"-", "-", "-">>, TRUE>>
      [] node.type = "blockquote" -> <<renderBlockquote(node.content, c), TRUE>>
      [] node.type = "call_out_box" -> <<renderBlockquote(node.content, c), TRUE>>
      [] node.type = "table" -> <<renderTable(node, c), TRUE>>
      [] OTHER -> renderDefault(node, c)

(***************************************************************************)
(* Inputs.                                                                 *)
(***************************************************************************)
SeqsUpTo(S, n) == UNION {[1..k -> S] : k \in 0..n}

Href(s) == Attrs("href", StringVal(s))

LinkU == Mark("link", Href(<<"u">>))
LinkV == Mark("link", Href(<<"v">>))
LinkEmptyHref == Mark("link", Href(<<>>))
LinkNoHref == Mark("link", NoAttrs)
LinkNumberHref == Mark("link", Attrs("href", Float64Val(1, 0)))
Strong == Mark("strong", NoAttrs)
Em == Mark("em", NoAttrs)
Underline == Mark("underline", NoAttrs)
Strike == Mark("strikethrough", NoAttrs)
Code == Mark("code", NoAttrs)
Highlight == Mark("highlight", NoAttrs)
Superscript == Mark("superscript", NoAttrs)

MarkValues == {LinkU, LinkV, LinkEmptyHref, LinkNoHref, LinkNumberHref, Strong, Em, Underline, Strike, Code,
               Highlight, Superscript}
MarkTextChars == {"a", BS, "!"}
\* Texts that begin or end with a full width yakumono or with a space rune.
BoundaryTexts == {<<"U+3002">>, <<"U+300C", "a", "U+FF01">>, <<"U+3000", "a">>, <<"!", "\f">>}
\* Lists that carry every supported mark once, in and against the nesting order.
AllMarksLists == {<<LinkU, Strong, Em, Underline, Strike, Code>>,
                  <<Code, Strike, Underline, Em, Strong, LinkU>>,
                  <<Underline, Strong, Strike, LinkU, Em>>}

StrongEmMarkValues == {Strong, Em, Highlight}
StrongEmTextChars == {"a", BS, "*", "_", "!"}

EscapeMarkValues == {LinkU, Strong, Em, Underline, Strike, Highlight}
EscapeTextChars == {"a", BS, "*", "_", "~"}

CodeMarkValues == {Code, Strong, Highlight}
CodeTextChars == {"a", BQ}

Plain(s) == TextNode(s, <<>>)
Para(content) == Node("paragraph", NoAttrs, content)

ParaA == Para(<<Plain(<<"a">>)>>)
ParaB == Para(<<Plain(<<"b">>)>>)
EmptyPara == Para(<<>>)
UnknownEmpty == Node("embed", NoAttrs, <<>>)
UnknownWithContent == Node("section", NoAttrs, <<ParaB, UnknownEmpty, ParaA>>)
UnknownOfUnknown == Node("section", NoAttrs, <<UnknownEmpty>>)
Rule == Node("horizontal_rule", NoAttrs, <<>>)
HardBreak == Node("hard_break", NoAttrs, <<>>)
EmptyTable == Node("table", NoAttrs, <<>>)
TableOfEmptyRows == Node("table", NoAttrs, <<Node("table_row", NoAttrs, <<>>), Node("table_row", NoAttrs, <<ParaA>>)>>)
TableOneCell == Node("table", NoAttrs, <<Node("table_row", NoAttrs, <<Node("table_cell", NoAttrs, <<ParaA>>)>>)>>)
QuoteAB == Node("blockquote", NoAttrs, <<ParaA, ParaB>>)

BlockValues == {ParaA, EmptyPara, UnknownEmpty, UnknownWithContent, UnknownOfUnknown, Rule,
                EmptyTable, TableOfEmptyRows, TableOneCell, QuoteAB}

QuoteTypes == {"blockquote", "call_out_box"}
QuoteChildValues == {ParaA, EmptyPara, UnknownEmpty, HardBreak, Rule,
                     Node("blockquote", NoAttrs, <<ParaB>>)}

\* The text of the header cell has a form feed before and a space behind.
HeaderCell == Node("table_header", NoAttrs, <<Para(<<Plain(<<"\f", "h", " ">>)>>)>>)
PipeBreakCell == Node("table_cell", NoAttrs,
                      <<Para(<<Plain(<<"|">>), HardBreak, Plain(<<"c">>)>>), ParaB>>)
CellValues == {HeaderCell, PipeBreakCell}
RowChildValues == CellValues \cup {ParaA}
RowValues(maxCells) == {Node("table_row", NoAttrs, cs) : cs \in SeqsUpTo(RowChildValues, maxCells)}
TableChildValues(maxCells) == RowValues(maxCells) \cup {ParaA}
TableValues(maxRows, maxCells) ==
    {Node("table", NoAttrs, rs) : rs \in SeqsUpTo(TableChildValues(maxCells), maxRows)}

LevelValues ==
    {Missing, Null, StringVal(<<"3">>), BoolVal(TRUE)}
        \cup {Float64Val(m, 0) : m \in (0 - 2)..MaxLevel}
        \cup {Float64Val(m, 0 - 1) : m \in (0 - 15)..(10 * MaxLevel + 5)}
        \cup {Float64Val(9, 18), Float64Val(1, 19), Float64Val(0 - 1, 19)}
        \cup {Float64Val(10, 9), Float64Val(214748365, 1), Float64Val(0 - 9, 18),
              Float64Val(922337203, 10), Float64Val(922337204, 10)}
HeadingContents == {<<>>, <<Plain(<<"a">>)>>, <<TextNode(<<"b">>, <<Strong>>), HardBreak>>}
HeadingValues == {Node("heading", Attrs("level", v), cs) : v \in LevelValues, cs \in HeadingContents}

CheckedValues == {Missing, Null, BoolVal(TRUE), BoolVal(FALSE),
                  StringVal(<<"t", "r", "u", "e">>), Float64Val(1, 0)}
CheckItemValues == {Node("check_list_item", Attrs("checked", v), cs) :
                        v \in CheckedValues, cs \in {<<>>, <<ParaA>>}}
CheckListValues == {Node("check_list", NoAttrs, items) :
                        items \in SeqsUpTo(CheckItemValues, MaxItems) \ {<<>>}}

\* List trees. Every item carries its nesting depth as the text of its
\* paragraph, so that a line of the output names the depth of its item.
Digits == <<"0", "1", "2", "3", "4", "5", "6", "7", "8", "9">>
DepthLabel(d) == Para(<<Plain(<<Digits[d + 1]>>)>>)
ItemTypeOf(listType) == IF listType = "check_list" THEN "check_list_item" ELSE "list_item"
OtherItemTypeOf(listType) == IF listType = "check_list" THEN "list_item" ELSE "check_list_item"
LeafItem(listType, d) == Node(ItemTypeOf(listType), NoAttrs, <<DepthLabel(d)>>)
WrongItem(listType, d) == Node(OtherItemTypeOf(listType), NoAttrs, <<DepthLabel(d)>>)
ItemWith(listType, d, n) == Node(ItemTypeOf(listType), NoAttrs, <<DepthLabel(d), n>>)

\* The child sequences of a list of type t at depth d around a deeper list n:
\* n as a sibling after an item, n as the second child of an item, n before
\* any item and again after one, and n after a child that is not an item of
\* this list.
ListShapes(t, d, n) ==
    {<<LeafItem(t, d), n>>,
     <<ItemWith(t, d, n)>>,
     <<ParaA, n, LeafItem(t, d), n>>,
     <<WrongItem(t, d), n, LeafItem(t, d)>>}

LeafShapes(t, d) == {<<>>, <<LeafItem(t, d)>>}

ListsOf(t, contents) == {Node(t, NoAttrs, cs) : cs \in contents}

RECURSIVE ListTrees(_, _)
ListTrees(d, maxDepth) ==
    UNION {ListsOf(t, LeafShapes(t, d)) : t \in NestedListTypes}
        \cup (IF d >= maxDepth THEN {}
              ELSE UNION {ListsOf(t, ListShapes(t, d, n)) :
                              t \in NestedListTypes, n \in ListTrees(d + 1, maxDepth)})

(***************************************************************************)
(* The program: one call of the renderer on an input, pc "start" before    *)
(* the call and "done" after it, out the returned string.                  *)
(***************************************************************************)
InitCommon ==
    /\ pc = "start"
    /\ ctx = RenderContext(0)
    /\ out = <<>>

\* The build matters only where a float64 attribute is converted to int,
\* that is for the level of a heading.
AnyBuild == goarch \in GoArchs
NoFloatRead == goarch = "amd64"

InitMarks ==
    /\ InitCommon
    /\ NoFloatRead
    /\ text \in SeqsUpTo(MarkTextChars, MaxMarkedTextLen) \cup BoundaryTexts
    /\ marks \in SeqsUpTo(MarkValues, MaxMarks) \cup AllMarksLists
    /\ nodes = <<>>

InitStrongEm ==
    /\ InitCommon
    /\ NoFloatRead
    /\ text \in SeqsUpTo(StrongEmTextChars, MaxTextLen)
    /\ marks \in SeqsUpTo(StrongEmMarkValues, MaxMarks + 1)
    /\ nodes = <<>>

InitCode ==
    /\ InitCommon
    /\ NoFloatRead
    /\ text \in SeqsUpTo(CodeTextChars, MaxFenceLen)
    /\ marks \in SeqsUpTo(CodeMarkValues, MaxMarks)
    /\ nodes = <<>>

InitEscape ==
    /\ InitCommon
    /\ NoFloatRead
    /\ text \in SeqsUpTo(EscapeTextChars, MaxMarkedTextLen)
    /\ marks \in SeqsUpTo(EscapeMarkValues, MaxMarks)
    /\ nodes = <<>>

CallApplyMarks ==
    /\ pc = "start"
    /\ out' = applyMarks(text, marks)
    /\ pc' = "done"
    /\ UNCHANGED <<goarch, text, marks, nodes, ctx>>

InitBlockCall ==
    /\ InitCommon
    /\ text = <<>>
    /\ marks = <<>>

InitBlocks == InitBlockCall /\ NoFloatRead /\ nodes \in SeqsUpTo(BlockValues, MaxBlocks)

InitQuote ==
    /\ InitBlockCall
    /\ NoFloatRead
    /\ nodes \in {<<Node(t, NoAttrs, cs)>> : t \in QuoteTypes, cs \in SeqsUpTo(QuoteChildValues, MaxBlocks)}

InitTable == InitBlockCall /\ NoFloatRead /\ nodes \in {<<t>> : t \in TableValues(MaxRows, MaxCells)}

InitHeading == InitBlockCall /\ AnyBuild /\ nodes \in {<<h>> : h \in HeadingValues}

InitCheck == InitBlockCall /\ NoFloatRead /\ nodes \in {<<n>> : n \in CheckItemValues \cup CheckListValues}

InitList == InitBlockCall /\ NoFloatRead /\ nodes \in {<<l>> : l \in ListTrees(0, MaxDepth)}

CallRenderBlocks ==
    /\ pc = "start"
    /\ out' = renderBlocks(nodes, ctx)
    /\ pc' = "done"
    /\ UNCHANGED <<goarch, text, marks, nodes, ctx>>

SpecMarks == InitMarks /\ [][CallApplyMarks]_vars
SpecStrongEm == InitStrongEm /\ [][CallApplyMarks]_vars
SpecCode == InitCode /\ [][CallApplyMarks]_vars
SpecEscape == InitEscape /\ [][CallApplyMarks]_vars

SpecBlocks == InitBlocks /\ [][CallRenderBlocks]_vars
SpecQuote == InitQuote /\ [][CallRenderBlocks]_vars
SpecTable == InitTable /\ [][CallRenderBlocks]_vars
SpecHeading == InitHeading /\ [][CallRenderBlocks]_vars
SpecCheck == InitCheck /\ [][CallRenderBlocks]_vars
SpecList == InitList /\ [][CallRenderBlocks]_vars

(***************************************************************************)
(* Properties of the mark renderer.                                        *)
(***************************************************************************)
Perms(ms) == {[i \in 1..Len(ms) |-> ms[f[i]]] : f \in Permutations(1..Len(ms))}

\* The link marks that are not skipped: href is a non-empty string.
IsEffectiveLink(m) ==
    m.type = "link" /\ m.attrs["href"].kind = "string" /\ m.attrs["href"].s # <<>>

EffectiveLinks(ms) == SelectSeq(ms, IsEffectiveLink)

Applies(ms, t) ==
    IF t = "link" THEN Len(EffectiveLinks(ms)) > 0
    ELSE \E i \in 1..Len(ms) : ms[i].type = t

WrapperOrder == <<"link", "strong", "em", "underline", "strikethrough", "code">>

Opening(t, ms) ==
    CASE t = "link" -> <<"[">>
      [] t = "strong" -> <<"*", "*">>
      [] t = "em" -> IF Applies(ms, "strong") THEN <<"_">> ELSE <<"*">>
      [] t = "underline" -> <<"<", "u", ">">>
      [] t = "strikethrough" -> <<"~", "~">>
      [] t = "code" -> <<BQ>>

Closing(t, ms) ==
    CASE t = "link" -> <<"]", "(">> \o EffectiveLinks(ms)[1].attrs["href"].s \o <<")">>
      [] t = "strong" -> <<"*", "*">>
      [] t = "em" -> IF Applies(ms, "strong") THEN <<"_">> ELSE <<"*">>
      [] t = "underline" -> <<"<", "/", "u", ">">>
      [] t = "strikethrough" -> <<"~", "~">>
      [] t = "code" -> <<BQ>>

\* How many wrappers of type t the list asks for.
WrapCount(ms, t) ==
    IF t = "link" THEN Len(EffectiveLinks(ms))
    ELSE Len(SelectSeq(ms, LAMBDA m : m.type = t))

\* The openings of the wrappers of types WrapperOrder[k..], outermost first.
RECURSIVE OpeningsFrom(_, _)
OpeningsFrom(k, ms) ==
    IF k > Len(WrapperOrder) THEN <<>>
    ELSE Repeat(Opening(WrapperOrder[k], ms), WrapCount(ms, WrapperOrder[k]))
         \o OpeningsFrom(k + 1, ms)

\* The closings of the wrappers of types WrapperOrder[k..], innermost first.
RECURSIVE ClosingsFrom(_, _)
ClosingsFrom(k, ms) ==
    IF k > Len(WrapperOrder) THEN <<>>
    ELSE ClosingsFrom(k + 1, ms)
         \o (IF WrapCount(ms, WrapperOrder[k]) = 0 THEN <<>>
             ELSE Repeat(Closing(WrapperOrder[k], ms), WrapCount(ms, WrapperOrder[k])))

\* The output opens with the wrappers in the order link, strong, em, underline,
\* strikethrough, code and closes with them in the reverse order (stated for
\* lists with at most one link that is not skipped: the text of an outer link
\* is escaped again, brackets of an inner link included).
NestsInOrder(result, ms) ==
    Len(EffectiveLinks(ms)) <= 1 =>
        /\ HasPrefix(result, OpeningsFrom(1, ms))
        /\ HasSuffix(result, ClosingsFrom(1, ms))
        /\ Len(result) >= Len(OpeningsFrom(1, ms)) + Len(ClosingsFrom(1, ms))

\* C2 as stated: applyMarks returns the same string for every permutation of
\* the mark list.
C2_AnyPermutation ==
    pc = "done" => \A p \in Perms(marks) : applyMarks(text, p) = out

\* C2, amended: the wrappers nest in the order link, strong, em, underline,
\* strikethrough, code, and applyMarks returns the same string for every permutation of
\* the mark list that keeps the link marks with a non-empty string href in
\* their relative order.
C2_FixedOrder ==
    pc = "done" =>
        /\ NestsInOrder(out, marks)
        /\ \A p \in Perms(marks) :
               EffectiveLinks(p) = EffectiveLinks(marks) => applyMarks(text, p) = out

C2_Witness ==
    /\ pc = "done"
    /\ marks = <<Code, Strike, Underline, Em, Strong, LinkU>>
    /\ text = <<"a">>
    /\ out = <<"[", "*", "*", "_", "<", "u", ">", "~", "~", BQ, "a", BQ, "~", "~",
               "<", "/", "u", ">", "_", "*", "*", "]", "(", "u", ")">>

RECURSIVE EscapeEach(_, _)
EscapeEach(s, special) ==
    IF Len(s) = 0 THEN <<>>
    ELSE (IF s[1] \in special THEN <<BS, s[1]>> ELSE <<s[1]>>) \o EscapeEach(Tail(s), special)

StripZWSP(s) ==
    LET a == IF HasPrefix(s, <<ZWSP>>) THEN Tail(s) ELSE s
    IN  IF HasSuffix(a, <<ZWSP>>) THEN SubSeq(a, 1, Len(a) - 1) ELSE a

IsStrongAndEm(ms) ==
    LET types == [i \in 1..Len(filterMarks(ms)) |-> filterMarks(ms)[i].type]
    IN  types \in {<<"strong", "em">>, <<"em", "strong">>}

\* C3: a run whose non-ignored marks are exactly strong and em renders as
\* **_ + text + _**, where every \, * and _ of the text is preceded by a
\* backslash, and the output has no three consecutive asterisks.
C3_StrongEmUnderscore ==
    (pc = "done" /\ IsStrongAndEm(marks)) =>
        /\ Len(out) >= 6
        /\ HasPrefix(out, <<"*", "*", "_">>)
        /\ HasSuffix(out, <<"_", "*", "*">>)
        /\ StripZWSP(SubSeq(out, 4, Len(out) - 3)) = EscapeEach(text, {BS, "*", "_"})
        /\ ~Contains(out, <<"*", "*", "*">>)

C3_Witness ==
    /\ pc = "done"
    /\ marks = <<Em, Highlight, Strong>>
    /\ text = <<"*", "_", BS>>
    /\ out = <<"*", "*", "_", BS, "*", BS, "_", BS, BS, "_", "*", "*">>

InsertAt(ms, i, m) == SubSeq(ms, 1, i) \o <<m>> \o SubSeq(ms, i + 1, Len(ms))
RemoveAt(ms, i) == SubSeq(ms, 1, i - 1) \o SubSeq(ms, i + 1, Len(ms))

\* C4: inserting an ignored mark at any position, or removing one, leaves
\* the output unchanged, and a run with only ignored marks is the raw text.
C4_IgnoredMarks ==
    pc = "done" =>
        /\ \A i \in 0..Len(marks) : \A t \in IgnoredMarkTypes :
               applyMarks(text, InsertAt(marks, i, Mark(t, NoAttrs))) = out
        /\ \A i \in 1..Len(marks) :
               marks[i].type \in IgnoredMarkTypes => applyMarks(text, RemoveAt(marks, i)) = out
        /\ (\A i \in 1..Len(marks) : marks[i].type \in IgnoredMarkTypes) => out = text

C4_Witness ==
    /\ pc = "done"
    /\ marks = <<Highlight, Highlight>>
    /\ text = <<"!", BS>>
    /\ out = <<"!", BS>>

\* The link marks that the wrapping loop skips: href missing, empty or not a string.
IsDeadLink(m) == m.type = "link" /\ ~IsEffectiveLink(m)

\* C11: a link mark whose href is missing, empty or not a string is treated
\* as absent: the output is the output for the mark list without that mark.
C11_DeadLinkAbsent ==
    pc = "done" =>
        \A i \in 1..Len(marks) :
            IsDeadLink(marks[i]) => applyMarks(text, RemoveAt(marks, i)) = out

\* The characters step 5 escapes for a mark list.
EscapedChars(ms) ==
    {BS}
        \cup (IF ~(Applies(ms, "strong") /\ Applies(ms, "em")) \/ Applies(ms, "strong")
              THEN {"*"} ELSE {})
        \cup (IF Applies(ms, "strong") /\ Applies(ms, "em") THEN {"_"} ELSE {})
        \cup (IF Applies(ms, "strikethrough") THEN {"~"} ELSE {})

\* C14: for a run with at least one non-ignored mark and no code mark, link
\* with a non-empty href included, the text between the wrappers is the
\* source text with each backslash as exactly two backslashes and each
\* character escaped by step 5 behind exactly one backslash.
C14_EscapedOnce ==
    (/\ pc = "done"
     /\ filterMarks(marks) # <<>>
     /\ ~Applies(marks, "code")
     /\ Len(EffectiveLinks(marks)) <= 1) =>
        out = OpeningsFrom(1, marks) \o EscapeEach(text, EscapedChars(marks))
                  \o ClosingsFrom(1, marks)

LeadingRun(s) ==
    CHOOSE n \in 0..Len(s) :
        (\A j \in 1..n : s[j] = BQ) /\ (n = Len(s) \/ s[n + 1] # BQ)

TrailingRun(s) ==
    CHOOSE n \in 0..Len(s) :
        (\A j \in (Len(s) - n + 1)..Len(s) : s[j] = BQ) /\ (n = Len(s) \/ s[Len(s) - n] # BQ)

LongestRun(s) ==
    CHOOSE n \in 0..Len(s) :
        /\ (n = 0 \/ Contains(s, Repeat(<<BQ>>, n)))
        /\ ~Contains(s, Repeat(<<BQ>>, n + 1))

\* C5: a run whose only non-ignored mark is code is the text, unescaped,
\* between two backquote fences of length (longest backquote run of the
\* text) + 1, and the opening and the closing backquote run of the output
\* have exactly that length.
C5_FenceNeverCollides ==
    (pc = "done" /\ Len(filterMarks(marks)) = 1 /\ filterMarks(marks)[1].type = "code") =>
        LET n == LongestRun(text) + 1
        IN  /\ out = Repeat(<<BQ>>, n) \o text \o Repeat(<<BQ>>, n)
            /\ LeadingRun(out) = n
            /\ TrailingRun(out) = n

(***************************************************************************)
(* Properties of the block renderer.                                       *)
(***************************************************************************)
KnownBlockTypes == {"heading", "paragraph", "hard_break", "bullet_list", "ordered_list",
                    "list_item", "check_list", "check_list_item", "horizontal_rule",
                    "blockquote", "call_out_box", "table"}

\* A node of unrecognized type with no content.
IsDropped(n) == n.type \notin KnownBlockTypes /\ Len(n.content) = 0

RECURSIVE BlankLineJoined(_)
BlankLineJoined(texts) ==
    IF Len(texts) = 0 THEN <<>>
    ELSE IF Len(texts) = 1 THEN texts[1]
    ELSE BlankLineJoined(SubSeq(texts, 1, Len(texts) - 1)) \o <<NL, NL>> \o texts[Len(texts)]

RECURSIVE TotalLen(_)
TotalLen(texts) == IF Len(texts) = 0 THEN 0 ELSE Len(texts[1]) + TotalLen(Tail(texts))

\* C1: renderBlocks returns the texts of the kept blocks, in input order,
\* joined by "\n\n"; a childless node of unrecognized type adds neither text
\* nor separator, an empty paragraph is kept with text "" and adds a separator.
C1_BlankLineJoin ==
    pc = "done" =>
        LET kept == SelectSeq(nodes, LAMBDA n : ~IsDropped(n))
            texts == [i \in 1..Len(kept) |-> renderBlock(kept[i], ctx)[1]]
        IN  /\ out = BlankLineJoined(texts)
            /\ Len(kept) > 0 => Len(out) = TotalLen(texts) + 2 * (Len(kept) - 1)
            /\ \A i \in 1..Len(nodes) :
                   /\ IsDropped(nodes[i]) => renderBlock(nodes[i], ctx) = <<<<>>, FALSE>>
                   /\ IsDropped(nodes[i]) => renderBlocks(RemoveAt(nodes, i), ctx) = out
                   /\ nodes[i] = EmptyPara => renderBlock(nodes[i], ctx) = <<<<>>, TRUE>>

C1_Witness ==
    /\ pc = "done"
    /\ nodes = <<ParaA, UnknownEmpty, EmptyPara>>
    /\ out = <<"a", NL, NL>>

IsCell(n) == n.type \in {"table_header", "table_cell"}
RowsOf(table) == SelectSeq(table.content, LAMBDA r : r.type = "table_row")
CellsOf(row) == SelectSeq(row.content, IsCell)
WidthOf(table) == MaxOf({Len(CellsOf(RowsOf(table)[i])) : i \in 1..Len(RowsOf(table))})

RECURSIVE RowLine(_)
RowLine(cells) ==
    IF Len(cells) = 0 THEN <<"|">>
    ELSE <<"|", " ">> \o cells[1] \o <<" ">> \o RowLine(Tail(cells))

\* C6: a table with at least one table_row and width c >= 1 renders to
\* (rows + 1) lines: the first row, the separator of c cells "---", then the
\* other rows, every row line holding exactly c cells: the cells of the row
\* in order, then empty cells up to c.
C6_TableShape ==
    (pc = "done" /\ Len(RowsOf(nodes[1])) >= 1 /\ WidthOf(nodes[1]) >= 1) =>
        LET rows == RowsOf(nodes[1])
            c == WidthOf(nodes[1])
            lines == Split(out, <<NL>>)
            cellTexts(r) == [i \in 1..c |->
                                IF i <= Len(CellsOf(r))
                                THEN TrimSpace(renderTableCell(CellsOf(r)[i], ctx))
                                ELSE <<>>]
        IN  /\ Len(lines) = Len(rows) + 1
            /\ lines[1] = RowLine(cellTexts(rows[1]))
            /\ lines[2] = RowLine([i \in 1..c |-> <<"-", "-", "-">>])
            /\ \A k \in 2..Len(rows) : lines[k + 1] = RowLine(cellTexts(rows[k]))

C6_Witness ==
    /\ pc = "done"
    /\ nodes = <<Node("table", NoAttrs,
                      <<Node("table_row", NoAttrs, <<HeaderCell, PipeBreakCell>>),
                        Node("table_row", NoAttrs, <<ParaA, HeaderCell>>)>>)>>
    /\ Split(out, <<NL>>)[2] = <<"|", " ", "-", "-", "-", " ", "|", " ", "-", "-", "-", " ", "|">>
    /\ Split(out, <<NL>>)[3] = <<"|", " ", "h", " ", "|", " ", " ", "|">>

\* The number of '#' that clamp(level, 1, 6) asks for: 1 for a level that is
\* missing, not a number, or below 1 after truncation; 6 for a level above 6.
ExpectedHashes(v) ==
    IF v.kind # "float64" THEN 1
    ELSE IF v.mant <= 0 THEN 1
    ELSE IF v.exp >= 1 THEN 6
    ELSE LET n == IF v.exp = 0 THEN v.mant ELSE v.mant \div 10
         IN  IF n < 1 THEN 1 ELSE IF n > 6 THEN 6 ELSE n

\* C7: a heading renders as clamp(level, 1, 6) '#', a space, and the inline
\* content; a floating-point level is truncated before clamping.
C7_HeadingClamp ==
    pc = "done" =>
        out = Repeat(<<"#">>, ExpectedHashes(nodes[1].attrs["level"])) \o <<" ">>
                  \o renderInline(nodes[1].content)

ExpectedCheckPrefix(item) ==
    IF item.attrs["checked"] = BoolVal(TRUE)
    THEN <<"-", " ", "[", "x", "]", " ">>
    ELSE <<"-", " ", "[", " ", "]", " ">>

\* C8: a check_list_item starts with "- [x] " iff checked is the boolean
\* true and with "- [ ] " otherwise, both as a standalone block and as a
\* child of a check_list, where it renders as it does standalone.
C8_CheckedPrefix ==
    pc = "done" =>
        /\ nodes[1].type = "check_list_item" => HasPrefix(out, ExpectedCheckPrefix(nodes[1]))
        /\ nodes[1].type = "check_list" =>
               LET items == nodes[1].content
                   lines == Split(out, <<NL>>)
               IN  /\ Len(lines) = Len(items)
                   /\ \A i \in 1..Len(items) :
                          /\ HasPrefix(lines[i], ExpectedCheckPrefix(items[i]))
                          /\ lines[i] = renderBlock(items[i], ctx)[1]

C8_Witness ==
    /\ pc = "done"
    /\ nodes = <<Node("check_list", NoAttrs,
                      <<Node("check_list_item", Attrs("checked", BoolVal(TRUE)), <<ParaA>>),
                        Node("check_list_item",
                             Attrs("checked", StringVal(<<"t", "r", "u", "e">>)), <<ParaA>>)>>)>>
    /\ out = <<"-", " ", "[", "x", "]", " ", "a", NL, "-", " ", "[", " ", "]", " ", "a">>

OtherQuoteType(t) == IF t = "blockquote" THEN "call_out_box" ELSE "blockquote"

SameAsOtherQuote ==
    renderBlock(Node(OtherQuoteType(nodes[1].type), NoAttrs, nodes[1].content), ctx) = <<out, TRUE>>

\* C9 as stated: every line of the rendered children, the blank separator
\* lines included, is prefixed with "> "; an empty body gives ">".
C9_EveryLinePrefixed ==
    pc = "done" =>
        LET body == renderBlocks(nodes[1].content, ctx)
            bodyLines == Split(body, <<NL>>)
        IN  /\ SameAsOtherQuote
            /\ IF body = <<>> THEN out = <<">">>
               ELSE Split(out, <<NL>>) = [i \in 1..Len(bodyLines) |-> <<">", " ">> \o bodyLines[i]]

\* C9, amended: blockquote and call_out_box render identically; every
\* non-empty line of the rendered children is prefixed with "> " and every
\* empty line, the blank separator lines included, becomes ">"; an empty
\* body gives the single line ">".
C9_QuotePrefix ==
    pc = "done" =>
        LET body == renderBlocks(nodes[1].content, ctx)
            bodyLines == Split(body, <<NL>>)
        IN  /\ SameAsOtherQuote
            /\ Split(out, <<NL>>) =
                   [i \in 1..Len(bodyLines) |->
                       IF bodyLines[i] = <<>> THEN <<">">> ELSE <<">", " ">> \o bodyLines[i]]

C9_Witness ==
    /\ pc = "done"
    /\ nodes = <<Node("call_out_box", NoAttrs, <<ParaA, Rule>>)>>
    /\ out = <<">", " ", "a", NL, ">", NL, ">", " ", "-", "-", "-">>

IsEmptyTable(n) ==
    n.type = "table" /\ \A i \in 1..Len(RowsOf(n)) : Len(CellsOf(RowsOf(n)[i])) = 0

\* C10: an empty table vanishes: the block sequence renders as it does with
\* the table node removed.
C10_EmptyTableVanishes ==
    pc = "done" => out = renderBlocks(SelectSeq(nodes, LAMBDA n : ~IsEmptyTable(n)), ctx)

(***************************************************************************)
(* Properties of the list layout.                                          *)
(***************************************************************************)
ItemPrefixes == {<<"-", " ">>, <<"1", ".", " ">>,
                 <<"-", " ", "[", " ", "]", " ">>, <<"-", " ", "[", "x", "]", " ">>}

\* The first line of an item labelled with depth d, behind n spaces.
IsItemLine(line, n, d) ==
    \E p \in ItemPrefixes : line = Repeat(<<" ">>, n) \o p \o <<Digits[d + 1]>>

\* C12: nested lists increase indentation by two spaces per nesting level:
\* the first line of an item of a list nested d levels below the top-level
\* list starts with exactly 2*d spaces before its prefix, whether the nested
\* list follows an item of the parent list or is a later child of an item.
C12_TwoSpacesPerLevel ==
    pc = "done" =>
        \A i \in 1..Len(Split(out, <<NL>>)) :
            LET line == Split(out, <<NL>>)[i]
            IN  \A n \in 0..Len(line) : \A d \in 0..MaxDepth :
                    IsItemLine(line, n, d) => n = 2 * d

IsItemOf(list, child) == child.type = ItemTypeOf(list.type)

HasItemBefore(list, i) == \E j \in 1..(i - 1) : IsItemOf(list, list.content[j])

ItemPrefixOf(list, item) ==
    CASE list.type = "bullet_list" -> <<"-", " ">>
      [] list.type = "ordered_list" -> <<"1", ".", " ">>
      [] list.type = "check_list" -> checkPrefix(item)

\* The lines of a list rendered on its own at the given indentation.
LinesOfNested(list, indent) ==
    LET nested == renderBlock(list, RenderContext(indent))[1]
    IN  IF nested = <<>> THEN <<>> ELSE Split(nested, <<NL>>)

\* The lines the i-th child of a list contributes.
LinesOfChild(list, c, i) ==
    LET child == list.content[i]
    IN  IF IsItemOf(list, child) THEN renderListItem(child, c, ItemPrefixOf(list, child))
        ELSE IF child.type \in NestedListTypes /\ HasItemBefore(list, i)
             THEN LinesOfNested(child, c.Indent + 2)
        ELSE <<>>

RECURSIVE LinesUpTo(_, _, _)
LinesUpTo(list, c, k) ==
    IF k = 0 THEN <<>> ELSE LinesUpTo(list, c, k - 1) \o LinesOfChild(list, c, k)

\* C13: the children of a list are scanned in order; an item child gives its
\* lines; a bullet_list, ordered_list or check_list child gives no line when
\* no item child precedes it, and the lines of its rendering at indent+2 when
\* one does; a child of any other type gives no line and is not an item.
C13_HasItemGuard ==
    (pc = "done" /\ Len(nodes) = 1 /\ nodes[1].type \in NestedListTypes) =>
        out = Join(LinesUpTo(nodes[1], ctx, Len(nodes[1].content)), <<NL>>)

C13_Witness ==
    /\ pc = "done"
    /\ nodes = <<Node("bullet_list", NoAttrs,
                      <<ParaA,
                        Node("check_list", NoAttrs, <<LeafItem("check_list", 1)>>),
                        LeafItem("bullet_list", 0),
                        Node("check_list", NoAttrs, <<LeafItem("check_list", 1)>>)>>)>>
    /\ out = <<"-", " ", "0", NL, " ", " ", "-", " ", "[", " ", "]", " ", "1">>

====
